---- MODULE Spec2Model ----
(***************************************************************************)
(* Bounty overlay: the admission controller (BountyTopicManager), the      *)
(* projection (BountyLookupService over BountyStorage) and the escrow      *)
(* contract (BountyContract).                                              *)
(*                                                                         *)
(* Hex strings (sCrypt ByteString, Addr, PubKey, txid-free data) are       *)
(* sequences of hex digits 0..15; byte arrays are sequences of 0..255.     *)
(* Output indices are 0-based as in the code; output i of a transaction    *)
(* is outputs[i + 1].                                                      *)
(***************************************************************************)
EXTENDS Integers, Sequences, FiniteSets, TLC

VARIABLES
    records,        \* BountyStorage.records: the BountyRecords collection, in insertion order
    lastCall,       \* the last lifecycle notification and how it ended
    lastAdmission,  \* the last identifyAdmissibleOutputs call: its arguments and its result
    prevAdmission,  \* an earlier identifyAdmissibleOutputs call, remembered for comparison
    lastLookup,     \* the lookup call made since the last notification, if any
    delivered,      \* per ref, what the notifications delivered so far amount to
    spend,          \* a spend of a contract UTXO: the method called, its arguments, its result
    sessions,       \* cert-server: per session id, the session data (oauthState, verifiedGithubUsername)
    lastReply,      \* cert-server: the last request of a route and the response to it
    used            \* history: per session id, the state values of the callbacks that
                    \* passed the state validation since the session's last /github/auth

vars == <<records, lastCall, lastAdmission, prevAdmission, lastLookup, delivered, spend,
          sessions, lastReply, used>>

-----------------------------------------------------------------------------
(* Bounds of the model *)

\* the collection holds at most this many documents
MaxRecords == 3

\* a transaction handed to admission has at most this many outputs
MaxOutputs == 2

-----------------------------------------------------------------------------
(* JavaScript values and the @bsv/sdk Utils conversions used by the code *)

\* the value of reading a property an object does not have; -1 is no hex digit
Undefined == <<-1>>

\* Utils.toArray(msg, 'hex'): a falsy msg gives [], a hex string its bytes
\* (an odd number of digits is read with a leading 0)
ToArrayHex(msg) ==
    IF msg = Undefined \/ msg = <<>> THEN <<>>
    ELSE LET h == IF Len(msg) % 2 = 1 THEN <<0>> \o msg ELSE msg
         IN  [i \in 1..(Len(h) \div 2) |-> h[2 * i - 1] * 16 + h[2 * i]]

\* the character code of the lower-case hex digit d
CharCode(d) == IF d < 10 THEN 48 + d ELSE 87 + d

\* Utils.toArray(msg, 'utf8') of a hex string: one byte per character
ToArrayUtf8(msg) ==
    IF msg = Undefined \/ msg = <<>> THEN <<>>
    ELSE [i \in 1..Len(msg) |-> CharCode(msg[i])]

\* Utils.toHex(bytes): two hex digits per byte
ToHex(bytes) ==
    [i \in 1..(2 * Len(bytes)) |->
        IF i % 2 = 1 THEN bytes[(i + 1) \div 2] \div 16 ELSE bytes[i \div 2] % 16]

\* Number(bigint): exact for every deadline of the model (all below 2^53)
NumberOf(n) == n

-----------------------------------------------------------------------------
(* Keys, signatures, scripts *)

\* identity keys (compressed public keys, 02..)
K1 == <<0, 2, 0, 1>>
K2 == <<0, 2, 0, 2>>
IdentityKeys == {K1, K2}

\* the DER signature (30..) the holder of identity key k makes over data [1]
\* under protocol [0, 'bounty'], keyID '1', for counterparty 'anyone', in hex
SignatureHex(k) == <<3, 0, k[3], k[4]>>

\* anyoneWallet.verifySignature: "throws" on a signature that is no DER
\* encoding, "valid" when it is the counterparty's signature, else "invalid"
VerifySignature(counterparty, signature) ==
    IF Len(signature) < 2 \/ signature[1] # 48 THEN "throws"
    ELSE IF counterparty \in IdentityKeys
            /\ signature = ToArrayHex(SignatureHex(counterparty))
         THEN "valid"
         ELSE "invalid"

\* what a bounty creator encodes into a locking script (spec.md, ContractInstance)
ParamsSigned ==
    [creatorAddr |-> <<10, 1>>, repoOwnerAddr |-> <<10, 2>>, contributorAddr |-> <<10, 3>>,
     issueId |-> <<4, 9>>, prId |-> <<5, 11>>, approvers |-> <<K2>>, deadline |-> 5,
     creatorIdentityKey |-> K1, creatorSignature |-> SignatureHex(K1)]

ParamsForged ==
    [creatorAddr |-> <<10, 4>>, repoOwnerAddr |-> <<10, 2>>, contributorAddr |-> <<10, 3>>,
     issueId |-> <<4, 10>>, prId |-> <<5, 12>>, approvers |-> <<K2>>, deadline |-> 7,
     creatorIdentityKey |-> K1, creatorSignature |-> SignatureHex(K2)]

ParamsSigned2 ==
    [creatorAddr |-> <<10, 2>>, repoOwnerAddr |-> <<10, 1>>, contributorAddr |-> <<10, 3>>,
     issueId |-> <<4, 9>>, prId |-> <<5, 13>>, approvers |-> <<K1>>, deadline |-> 9,
     creatorIdentityKey |-> K2, creatorSignature |-> SignatureHex(K2)]

\* a locking script: the bounty layout with its pushed arguments, or anything else
BountyScript(p) == [layout |-> "bounty", args |-> p]
GarbageScript == [layout |-> "garbage", args |-> ParamsSigned]

ScriptSigned == BountyScript(ParamsSigned)
ScriptForged == BountyScript(ParamsForged)
ScriptSigned2 == BountyScript(ParamsSigned2)

Scripts == {ScriptSigned, ScriptForged, GarbageScript}

-----------------------------------------------------------------------------
(* BountyContract: construction and decoding *)

\* the constructor: the seven properties the class declares and assigns
BountyContract(creatorAddr, repoOwnerAddr, contributorAddr, issueId, prId, approvers, deadline) ==
    [creatorAddr |-> creatorAddr, repoOwnerAddr |-> repoOwnerAddr,
     contributorAddr |-> contributorAddr, issueId |-> issueId, prId |-> prId,
     approvers |-> approvers, deadline |-> deadline]

\* reading property name of a JavaScript object
Get(obj, name) == IF name \in DOMAIN obj THEN obj[name] ELSE Undefined

\* BountyContract.fromLockingScript(script): throws unless the script has the
\* bounty layout; otherwise the instance the constructor builds
fromLockingScript(script) ==
    IF script.layout # "bounty" THEN [threw |-> TRUE, bounty |-> <<>>]
    ELSE [threw |-> FALSE,
          bounty |-> << BountyContract(script.args.creatorAddr, script.args.repoOwnerAddr,
                                       script.args.contributorAddr, script.args.issueId,
                                       script.args.prId, script.args.approvers,
                                       script.args.deadline) >>]

-----------------------------------------------------------------------------
(* BountyContract: the four public methods *)

\* 0xffffffff and the other values of the 32-bit sequence field are written
\* as their two 16-bit halves <<high, low>>
UINT_MAX == <<65535, 65535>>
Less32(a, b) == a[1] < b[1] \/ (a[1] = b[1] /\ a[2] < b[2])
LOCKTIME_BLOCK_HEIGHT_MARKER == 500000000
N_APPROVERS == 1

\* the public keys of the contract's parties and of a stranger
K3 == <<0, 2, 0, 3>>
K4 == <<0, 2, 0, 4>>
PubKeys == {K1, K2, K3, K4}

\* pubKey2Addr(pubKey): the address (hash160) of a key, a different one for
\* each key: a1 for K1, a2 for K2 and so on
pubKey2Addr(pubKey) == <<10, pubKey[4]>>

\* the signature the holder of pubKey makes over the spending transaction
TxSig(pubKey) == <<3, 0, pubKey[3], pubKey[4], 4, 1>>

\* this.checkSig(sig, pubKey)
checkSig(sig, pubKey) == sig = TxSig(pubKey)

\* this.checkMultiSig(sigs, pubKeys) with as many signatures as keys: each
\* signature must verify against the key at its position
checkMultiSig(sigs, pubKeys) ==
    /\ Len(sigs) = Len(pubKeys)
    /\ \A i \in 1..Len(sigs) : checkSig(sigs[i], pubKeys[i])

\* a transaction output: its amount and its script (pay-to-address or other)
Output(satoshis, kind, addr) == [satoshis |-> satoshis, kind |-> kind, addr |-> addr]

\* Utils.buildPublicKeyHashOutput(addr, amount): the serialized output
buildPublicKeyHashOutput(addr, amount) == Output(amount, "p2pkh", addr)

\* hash256 of serialized outputs: collision-free, and never the zero hash
hash256(outputs) == [hash256 |-> outputs]
ZeroHash == [hash256 |-> <<Output(0, "none", <<>>)>>]

\* the spending transaction as the contract input sees it: the value of the
\* UTXO it spends, the input's index and sequence, the transaction's locktime
\* and outputs
SpendingTx(value, inputIndex, sequence, locktime, outputs) ==
    [value |-> value, inputIndex |-> inputIndex, sequence |-> sequence,
     locktime |-> locktime, outputs |-> outputs]

\* the outputs the signature hash commits to: all of them under
\* SigHash.ALL, under SigHash.ANYONECANPAY_SINGLE the one at the input's
\* index (none when the transaction has no such output)
CommittedOutputs(tx, sigHashType) ==
    IF sigHashType = "ALL" THEN tx.outputs
    ELSE IF tx.inputIndex < Len(tx.outputs) THEN <<tx.outputs[tx.inputIndex + 1]>>
    ELSE <<>>

\* this.ctx of a method declared with sigHashType
Ctx(tx, sigHashType) ==
    [utxo |-> [value |-> tx.value], sequence |-> tx.sequence, locktime |-> tx.locktime,
     hashOutputs |-> IF sigHashType # "ALL" /\ tx.inputIndex >= Len(tx.outputs)
                     THEN ZeroHash
                     ELSE hash256(CommittedOutputs(tx, sigHashType))]

\* confirmBountyPayment without the assert on hashOutputs
confirmBountyPaymentAnyOutputs(this, tx, repoOwnerSig, repoOwnerPubKey, approverSigs) ==
    LET ctx == Ctx(tx, "ANYONECANPAY_SINGLE")
        amount == ctx.utxo.value
        out == <<buildPublicKeyHashOutput(this.contributorAddr, amount)>>
    IN  IF pubKey2Addr(repoOwnerPubKey) # this.repoOwnerAddr
        THEN "invalid public key for repo owner"
        ELSE IF ~checkSig(repoOwnerSig, repoOwnerPubKey)
        THEN "repo owner signature check failed"
        ELSE IF ~checkMultiSig(approverSigs, this.approvers)
        THEN "approvers checkMultiSig failed"
        ELSE "ok"

\* confirmBountyPayment without the assert that the key is the repo owner's
confirmBountyPaymentAnyKey(this, tx, repoOwnerSig, repoOwnerPubKey, approverSigs) ==
    LET ctx == Ctx(tx, "ANYONECANPAY_SINGLE")
        amount == ctx.utxo.value
        out == <<buildPublicKeyHashOutput(this.contributorAddr, amount)>>
    IN  IF ~checkSig(repoOwnerSig, repoOwnerPubKey)
        THEN "repo owner signature check failed"
        ELSE IF ~checkMultiSig(approverSigs, this.approvers)
        THEN "approvers checkMultiSig failed"
        ELSE IF hash256(out) # ctx.hashOutputs THEN "hashOutputs mismatch"
        ELSE "ok"

\* the result of a public method: "ok", or the assert that failed
confirmBountyPayment(this, tx, repoOwnerSig, repoOwnerPubKey, approverSigs) ==
    LET ctx == Ctx(tx, "ANYONECANPAY_SINGLE")
        amount == ctx.utxo.value
        out == <<buildPublicKeyHashOutput(this.contributorAddr, amount)>>
    IN  IF pubKey2Addr(repoOwnerPubKey) # this.repoOwnerAddr
        THEN "invalid public key for repo owner"
        ELSE IF ~checkSig(repoOwnerSig, repoOwnerPubKey)
        THEN "repo owner signature check failed"
        ELSE IF ~checkMultiSig(approverSigs, this.approvers)
        THEN "approvers checkMultiSig failed"
        ELSE IF hash256(out) # ctx.hashOutputs THEN "hashOutputs mismatch"
        ELSE "ok"

\* rejectBounty with the output of confirmBountyPayment: the contributor is paid
rejectBountyToContributor(this, tx, repoOwnerSig, repoOwnerPubKey, approverSigs) ==
    LET ctx == Ctx(tx, "ALL")
        amount == ctx.utxo.value
        out == <<buildPublicKeyHashOutput(this.contributorAddr, amount)>>
    IN  IF pubKey2Addr(repoOwnerPubKey) # this.repoOwnerAddr
        THEN "invalid public key for repo owner"
        ELSE IF ~checkSig(repoOwnerSig, repoOwnerPubKey)
        THEN "repo owner signature check failed"
        ELSE IF ~checkMultiSig(approverSigs, this.approvers)
        THEN "approvers checkMultiSig failed"
        ELSE IF hash256(out) # ctx.hashOutputs THEN "hashOutputs mismatch"
        ELSE "ok"

rejectBounty(this, tx, repoOwnerSig, repoOwnerPubKey, approverSigs) ==
    LET ctx == Ctx(tx, "ALL")
        amount == ctx.utxo.value
        out == <<buildPublicKeyHashOutput(this.creatorAddr, amount)>>
    IN  IF pubKey2Addr(repoOwnerPubKey) # this.repoOwnerAddr
        THEN "invalid public key for repo owner"
        ELSE IF ~checkSig(repoOwnerSig, repoOwnerPubKey)
        THEN "repo owner signature check failed"
        ELSE IF ~checkMultiSig(approverSigs, this.approvers)
        THEN "approvers checkMultiSig failed"
        ELSE IF hash256(out) # ctx.hashOutputs THEN "hashOutputs mismatch"
        ELSE "ok"

\* refundDeadline with > for >= in the deadline assert
refundDeadlineStrict(this, tx, creatorSig, creatorPubKey) ==
    LET ctx == Ctx(tx, "ALL")
        amount == ctx.utxo.value
        out == <<buildPublicKeyHashOutput(this.creatorAddr, amount)>>
    IN  IF pubKey2Addr(creatorPubKey) # this.creatorAddr
        THEN "invalid public key for bounty creator"
        ELSE IF ~checkSig(creatorSig, creatorPubKey)
        THEN "creator signature check failed"
        ELSE IF ~Less32(ctx.sequence, UINT_MAX) THEN "require nLocktime enabled"
        ELSE IF this.deadline < LOCKTIME_BLOCK_HEIGHT_MARKER
                /\ ~(ctx.locktime < LOCKTIME_BLOCK_HEIGHT_MARKER)
        THEN "assertion failed"
        ELSE IF ~(ctx.locktime > this.deadline) THEN "deadline not yet reached"
        ELSE IF hash256(out) # ctx.hashOutputs THEN "hashOutputs mismatch"
        ELSE "ok"

\* refundDeadline without the branch on LOCKTIME_BLOCK_HEIGHT_MARKER
refundDeadlineAnyUnit(this, tx, creatorSig, creatorPubKey) ==
    LET ctx == Ctx(tx, "ALL")
        amount == ctx.utxo.value
        out == <<buildPublicKeyHashOutput(this.creatorAddr, amount)>>
    IN  IF pubKey2Addr(creatorPubKey) # this.creatorAddr
        THEN "invalid public key for bounty creator"
        ELSE IF ~checkSig(creatorSig, creatorPubKey)
        THEN "creator signature check failed"
        ELSE IF ~Less32(ctx.sequence, UINT_MAX) THEN "require nLocktime enabled"
        ELSE IF ~(ctx.locktime >= this.deadline) THEN "deadline not yet reached"
        ELSE IF hash256(out) # ctx.hashOutputs THEN "hashOutputs mismatch"
        ELSE "ok"

refundDeadline(this, tx, creatorSig, creatorPubKey) ==
    LET ctx == Ctx(tx, "ALL")
        amount == ctx.utxo.value
        out == <<buildPublicKeyHashOutput(this.creatorAddr, amount)>>
    IN  IF pubKey2Addr(creatorPubKey) # this.creatorAddr
        THEN "invalid public key for bounty creator"
        ELSE IF ~checkSig(creatorSig, creatorPubKey)
        THEN "creator signature check failed"
        ELSE IF ~Less32(ctx.sequence, UINT_MAX) THEN "require nLocktime enabled"
        ELSE IF this.deadline < LOCKTIME_BLOCK_HEIGHT_MARKER
                /\ ~(ctx.locktime < LOCKTIME_BLOCK_HEIGHT_MARKER)
        THEN "assertion failed"
        ELSE IF ~(ctx.locktime >= this.deadline) THEN "deadline not yet reached"
        ELSE IF hash256(out) # ctx.hashOutputs THEN "hashOutputs mismatch"
        ELSE "ok"

\* the first loop of splitBountyPayment
RECURSIVE TotalShares(_, _)
TotalShares(contributorShares, i) ==
    IF i > Len(contributorShares) THEN 0
    ELSE contributorShares[i][2] + TotalShares(contributorShares, i + 1)

\* the second loop of splitBountyPayment, from pair i (1-based) on: an output
\* for every pair whose percentage is above 0
RECURSIVE MoreOutputs(_, _, _)
MoreOutputs(contributorShares, value, i) ==
    IF i > Len(contributorShares) THEN <<>>
    ELSE (IF contributorShares[i][2] > 0
          THEN <<buildPublicKeyHashOutput(contributorShares[i][1],
                                          (value * contributorShares[i][2]) \div 100)>>
          ELSE <<>>) \o MoreOutputs(contributorShares, value, i + 1)

\* the outputs splitBountyPayment builds: the first pair's output whatever
\* its percentage, then those of the second loop
splitOutputs(contributorShares, value) ==
    <<buildPublicKeyHashOutput(contributorShares[1][1],
                               (value * contributorShares[1][2]) \div 100)>>
        \o MoreOutputs(contributorShares, value, 2)

\* splitBountyPayment accepting every total of 100 or more
splitBountyPaymentAtLeast(this, tx, repoOwnerSig, repoOwnerPubKey, approverSigs, contributorShares) ==
    LET ctx == Ctx(tx, "ALL")
        totalShares == TotalShares(contributorShares, 1)
        outputs == splitOutputs(contributorShares, ctx.utxo.value)
    IN  IF pubKey2Addr(repoOwnerPubKey) # this.repoOwnerAddr
        THEN "invalid public key for repo owner"
        ELSE IF ~checkSig(repoOwnerSig, repoOwnerPubKey)
        THEN "repo owner signature check failed"
        ELSE IF ~checkMultiSig(approverSigs, this.approvers)
        THEN "approvers checkMultiSig failed"
        ELSE IF totalShares < 100 THEN "shares must add up to 100%"
        ELSE IF hash256(outputs) # ctx.hashOutputs THEN "hashOutputs mismatch"
        ELSE "ok"

splitBountyPayment(this, tx, repoOwnerSig, repoOwnerPubKey, approverSigs, contributorShares) ==
    LET ctx == Ctx(tx, "ALL")
        totalShares == TotalShares(contributorShares, 1)
        outputs == splitOutputs(contributorShares, ctx.utxo.value)
    IN  IF pubKey2Addr(repoOwnerPubKey) # this.repoOwnerAddr
        THEN "invalid public key for repo owner"
        ELSE IF ~checkSig(repoOwnerSig, repoOwnerPubKey)
        THEN "repo owner signature check failed"
        ELSE IF ~checkMultiSig(approverSigs, this.approvers)
        THEN "approvers checkMultiSig failed"
        ELSE IF totalShares # 100 THEN "shares must add up to 100%"
        ELSE IF hash256(outputs) # ctx.hashOutputs THEN "hashOutputs mismatch"
        ELSE "ok"

-----------------------------------------------------------------------------
(* BountyTopicManager.identifyAdmissibleOutputs *)

\* TryOutput with the decode placed before the inner try: a script that does
\* not decode is no longer taken by the inner catch
TryOutputDecodeOutsideTry(script) ==
    LET decoded == fromLockingScript(script) IN
    IF decoded.threw THEN "escaped"
    ELSE LET bounty == decoded.bounty[1]
             verifyResult ==
                 VerifySignature(Get(bounty, "creatorIdentityKey"),
                                 ToArrayHex(Get(bounty, "creatorSignature")))
         IN  IF verifyResult = "valid" THEN "pushed" ELSE "continued"

\* the body of the inner try for one output: "pushed" when the index is
\* admitted, "continued" when the output is skipped (the signature is not
\* valid, or the inner catch took an error); an error escaping the inner try
\* would be "escaped"
TryOutput(script) ==
    LET decoded == fromLockingScript(script) IN
    IF decoded.threw THEN "continued"
    ELSE LET bounty == decoded.bounty[1]
             verifyResult ==
                 VerifySignature(Get(bounty, "creatorIdentityKey"),
                                 ToArrayHex(Get(bounty, "creatorSignature")))
         IN  IF verifyResult = "throws" THEN "continued"
             ELSE IF verifyResult # "valid" THEN "continued"
             ELSE "pushed"

\* the for loop over parsedTransaction.outputs.entries(), from index i on:
\* the list outputsToAdmit at the end, or "escaped" in place of it
RECURSIVE AdmitLoop(_, _, _)
AdmitLoop(outputs, i, outputsToAdmit) ==
    IF i >= Len(outputs) THEN [escaped |-> FALSE, outputsToAdmit |-> outputsToAdmit]
    ELSE LET step == TryOutput(outputs[i + 1]) IN
         IF step = "escaped" THEN [escaped |-> TRUE, outputsToAdmit |-> outputsToAdmit]
         ELSE AdmitLoop(outputs, i + 1,
                        IF step = "pushed" THEN Append(outputsToAdmit, i)
                        ELSE outputsToAdmit)

\* an envelope: Transaction.fromBEEF throws on it, or gives its outputs
UnparsableBeef == [parseable |-> FALSE, outputs |-> <<>>]
BeefOf(outputs) == [parseable |-> TRUE, outputs |-> outputs]

Threw == [outcome |-> "threw", value |-> <<>>]
Returned(v) == [outcome |-> "returned", value |-> <<v>>]

\* identifyAdmissibleOutputs with the two fields of the result exchanged
identifyAdmissibleOutputsSwapped(beef, previousCoins) ==
    IF ~beef.parseable THEN Threw
    ELSE LET loop == AdmitLoop(beef.outputs, 0, <<>>) IN
         IF loop.escaped THEN Threw
         ELSE Returned([outputsToAdmit |-> previousCoins,
                        coinsToRetain |-> loop.outputsToAdmit])

\* identifyAdmissibleOutputs with an outer catch that logs instead of rethrowing
identifyAdmissibleOutputsSwallowing(beef, previousCoins) ==
    IF ~beef.parseable
    THEN Returned([outputsToAdmit |-> <<>>, coinsToRetain |-> previousCoins])
    ELSE LET loop == AdmitLoop(beef.outputs, 0, <<>>) IN
         Returned([outputsToAdmit |-> loop.outputsToAdmit,
                   coinsToRetain |-> previousCoins])

\* identifyAdmissibleOutputs keeping the retained coins in a member that is
\* never reset: each call adds its previousCoins to those of the call before
identifyAdmissibleOutputsAccumulating(beef, previousCoins) ==
    IF ~beef.parseable THEN Threw
    ELSE LET loop == AdmitLoop(beef.outputs, 0, <<>>)
             kept == IF lastAdmission.called /\ lastAdmission.result.outcome = "returned"
                     THEN lastAdmission.result.value[1].coinsToRetain
                     ELSE <<>>
         IN  IF loop.escaped THEN Threw
             ELSE Returned([outputsToAdmit |-> loop.outputsToAdmit,
                            coinsToRetain |-> kept \o previousCoins])

\* identifyAdmissibleOutputs retaining no coin
identifyAdmissibleOutputsRetainingNone(beef, previousCoins) ==
    IF ~beef.parseable THEN Threw
    ELSE LET loop == AdmitLoop(beef.outputs, 0, <<>>) IN
         IF loop.escaped THEN Threw
         ELSE Returned([outputsToAdmit |-> loop.outputsToAdmit,
                        coinsToRetain |-> <<>>])

\* the whole call: the outer try rethrows whatever reaches it
identifyAdmissibleOutputs(beef, previousCoins) ==
    IF ~beef.parseable THEN Threw
    ELSE LET loop == AdmitLoop(beef.outputs, 0, <<>>) IN
         IF loop.escaped THEN Threw
         ELSE Returned([outputsToAdmit |-> loop.outputsToAdmit,
                        coinsToRetain |-> previousCoins])


-----------------------------------------------------------------------------
(* BountyStorage: the operations on the BountyRecords collection *)

\* insertOne of a new document with status 'active' (createdAt, the wall
\* clock at insertion, is read by no operation and is left out)
storeRecord(recs, txid, outputIndex, value, creatorAddr, repoOwnerAddr, contributorAddr, issueId, prId, deadline, creatorIdentityKey) ==
    Append(recs,
           [txid |-> txid, outputIndex |-> outputIndex, value |-> value,
            creatorAddr |-> creatorAddr, repoOwnerAddr |-> repoOwnerAddr,
            contributorAddr |-> contributorAddr, issueId |-> issueId, prId |-> prId,
            deadline |-> deadline, creatorIdentityKey |-> creatorIdentityKey,
            status |-> "active"])

\* the positions of the documents matching { txid, outputIndex }
Matching(recs, txid, outputIndex) ==
    {k \in 1..Len(recs) : recs[k].txid = txid /\ recs[k].outputIndex = outputIndex}

\* the least element of a non-empty set of positions
First(S) == CHOOSE k \in S : \A j \in S : k <= j

\* updateOne({ txid, outputIndex }, { $set: { status } }): sets the status of
\* the first matching document, if any
updateStatus(recs, txid, outputIndex, status) ==
    LET hits == Matching(recs, txid, outputIndex) IN
    IF hits = {} THEN recs
    ELSE [recs EXCEPT ![First(hits)].status = status]

\* deleteRecord with the filter { txid }: removes the first document of the
\* transaction, whatever its output
deleteRecordByTxid(recs, txid, outputIndex) ==
    LET hits == {k \in 1..Len(recs) : recs[k].txid = txid} IN
    IF hits = {} THEN recs
    ELSE LET k == First(hits) IN
         [j \in 1..(Len(recs) - 1) |-> IF j < k THEN recs[j] ELSE recs[j + 1]]

\* deleteOne({ txid, outputIndex }): removes the first matching document, if any
deleteRecord(recs, txid, outputIndex) ==
    LET hits == Matching(recs, txid, outputIndex) IN
    IF hits = {} THEN recs
    ELSE LET k == First(hits) IN
         [j \in 1..(Len(recs) - 1) |-> IF j < k THEN recs[j] ELSE recs[j + 1]]

\* findOne({ txid, outputIndex }): the first matching document, or null (<<>>)
getBountyDetails(recs, txid, outputIndex) ==
    LET hits == Matching(recs, txid, outputIndex) IN
    IF hits = {} THEN <<>> ELSE <<recs[First(hits)]>>

-----------------------------------------------------------------------------
(* The ledger outputs the lifecycle notifications are about *)

TxIds == {"T1", "T2"}
Ledger == [t \in TxIds |->
              IF t = "T1" THEN <<ScriptSigned, GarbageScript>>
              ELSE <<ScriptForged, ScriptSigned2>>]
Refs == {<<t, i>> : t \in TxIds, i \in 0..1}
ScriptAt(txid, outputIndex) == Ledger[txid][outputIndex + 1]

\* the amounts (satoshis) locked in the ledger outputs
LedgerSatoshis == [t \in TxIds |-> IF t = "T1" THEN <<1000, 1>> ELSE <<7, 1000>>]
SatoshisAt(txid, outputIndex) == LedgerSatoshis[txid][outputIndex + 1]

Topics == {"tm_bounty", "tm_meter"}

-----------------------------------------------------------------------------
(* BountyLookupService: the lifecycle notifications *)

\* a notification as its caller sees it: storeCalled tells whether it reached
\* the Store, storeFailed whether the Store then failed
Call(op, txid, outputIndex, topic, storeCalled, storeFailed, outcome) ==
    [op |-> op, txid |-> txid, outputIndex |-> outputIndex, topic |-> topic,
     storeCalled |-> storeCalled, storeFailed |-> storeFailed, outcome |-> outcome]

NoCall == Call("none", "T1", 0, "tm_bounty", FALSE, FALSE, "returned")

\* outputAddedRecords without the try block around the decode: a script that
\* does not decode is stored with the fields of an empty object
outputAddedRecordsUnguarded(recs, txid, outputIndex, outputScript, storeFails) ==
    LET decoded == fromLockingScript(outputScript) IN
    IF storeFails THEN recs
    ELSE IF decoded.threw
         THEN storeRecord(recs, txid, outputIndex, 0, Undefined, Undefined, Undefined,
                          Undefined, Undefined, 0, Undefined)
         ELSE LET bounty == decoded.bounty[1] IN
              storeRecord(recs, txid, outputIndex, 0, Get(bounty, "creatorAddr"),
                          Get(bounty, "repoOwnerAddr"), Get(bounty, "contributorAddr"),
                          ToHex(ToArrayUtf8(Get(bounty, "issueId"))),
                          ToHex(ToArrayUtf8(Get(bounty, "prId"))),
                          NumberOf(Get(bounty, "deadline")),
                          ToHex(ToArrayUtf8(Get(bounty, "creatorIdentityKey"))))

\* the collection after outputAdded's try block: unchanged when the decode or
\* the Store throws (the catch logs and returns)
outputAddedRecords(recs, txid, outputIndex, outputScript, storeFails) ==
    LET decoded == fromLockingScript(outputScript) IN
    IF decoded.threw \/ storeFails THEN recs
    ELSE LET bounty == decoded.bounty[1]
             value == 0
             creatorAddr == Get(bounty, "creatorAddr")
             repoOwnerAddr == Get(bounty, "repoOwnerAddr")
             contributorAddr == Get(bounty, "contributorAddr")
             issueId == ToHex(ToArrayUtf8(Get(bounty, "issueId")))
             prId == ToHex(ToArrayUtf8(Get(bounty, "prId")))
             deadline == NumberOf(Get(bounty, "deadline"))
             creatorIdentityKey == ToHex(ToArrayUtf8(Get(bounty, "creatorIdentityKey")))
         IN  storeRecord(recs, txid, outputIndex, value, creatorAddr, repoOwnerAddr,
                         contributorAddr, issueId, prId, deadline, creatorIdentityKey)

OutputAdded(txid, outputIndex, outputScript, topic, storeFails) ==
    /\ Len(records) < MaxRecords
    /\ IF topic # "tm_bounty"
       THEN /\ records' = records
            /\ lastCall' = Call("outputAdded", txid, outputIndex, topic, FALSE, FALSE, "returned")
       ELSE /\ records' = outputAddedRecords(records, txid, outputIndex, outputScript, storeFails)
            /\ lastCall' = Call("outputAdded", txid, outputIndex, topic,
                                ~fromLockingScript(outputScript).threw,
                                storeFails /\ ~fromLockingScript(outputScript).threw,
                                "returned")
    /\ UNCHANGED <<lastAdmission, prevAdmission>>

\* outputSpent keeping the record and setting its status to completed
OutputSpentCompleting(txid, outputIndex, topic, storeFails) ==
    /\ IF topic # "tm_bounty"
       THEN /\ records' = records
            /\ lastCall' = Call("outputSpent", txid, outputIndex, topic, FALSE, FALSE, "returned")
       ELSE /\ records' = IF storeFails THEN records
                          ELSE updateStatus(records, txid, outputIndex, "completed")
            /\ lastCall' = Call("outputSpent", txid, outputIndex, topic, TRUE, storeFails, "returned")
    /\ UNCHANGED <<lastAdmission, prevAdmission>>

\* outputSpent without the topic test of its first line
OutputSpentAnyTopic(txid, outputIndex, topic, storeFails) ==
    /\ records' = IF storeFails THEN records
                  ELSE deleteRecord(records, txid, outputIndex)
    /\ lastCall' = Call("outputSpent", txid, outputIndex, topic, TRUE, storeFails, "returned")
    /\ UNCHANGED <<lastAdmission, prevAdmission>>

\* outputSpent: the Store's error is caught and logged
OutputSpent(txid, outputIndex, topic, storeFails) ==
    /\ IF topic # "tm_bounty"
       THEN /\ records' = records
            /\ lastCall' = Call("outputSpent", txid, outputIndex, topic, FALSE, FALSE, "returned")
       ELSE /\ records' = IF storeFails THEN records
                          ELSE deleteRecord(records, txid, outputIndex)
            /\ lastCall' = Call("outputSpent", txid, outputIndex, topic, TRUE, storeFails, "returned")
    /\ UNCHANGED <<lastAdmission, prevAdmission>>

\* outputDeleted: no try block, the Store's error reaches the caller
OutputDeleted(txid, outputIndex, topic, storeFails) ==
    /\ IF topic # "tm_bounty"
       THEN /\ records' = records
            /\ lastCall' = Call("outputDeleted", txid, outputIndex, topic, FALSE, FALSE, "returned")
       ELSE /\ records' = IF storeFails THEN records
                          ELSE deleteRecord(records, txid, outputIndex)
            /\ lastCall' = Call("outputDeleted", txid, outputIndex, topic, TRUE, storeFails,
                                IF storeFails THEN "threw" ELSE "returned")
    /\ UNCHANGED <<lastAdmission, prevAdmission>>

-----------------------------------------------------------------------------
(* BountyStorage: the finders *)

\* .project({ txid, outputIndex }).toArray() of the documents a find
\* matched, in collection order
Project(hits) ==
    [k \in 1..Len(hits) |-> [txid |-> hits[k].txid, outputIndex |-> hits[k].outputIndex]]

findAllActive(recs) == Project(SelectSeq(recs, LAMBDA d : d.status = "active"))
findByStatus(recs, status) == Project(SelectSeq(recs, LAMBDA d : d.status = status))
findByIssueId(recs, issueId) == Project(SelectSeq(recs, LAMBDA d : d.issueId = issueId))
findByPrId(recs, prId) == Project(SelectSeq(recs, LAMBDA d : d.prId = prId))
findByCreator(recs, creatorIdentityKey) ==
    Project(SelectSeq(recs, LAMBDA d : d.creatorIdentityKey = creatorIdentityKey))
findByRepoOwner(recs, repoOwnerAddr) ==
    Project(SelectSeq(recs, LAMBDA d : d.repoOwnerAddr = repoOwnerAddr))
findByContributor(recs, contributorAddr) ==
    Project(SelectSeq(recs, LAMBDA d : d.contributorAddr = contributorAddr))
findExpiredBounties(recs, currentValue) ==
    Project(SelectSeq(recs, LAMBDA d : d.deadline < currentValue /\ d.status = "active"))

-----------------------------------------------------------------------------
(* BountyLookupService.lookup *)

\* a query object; a field that is not set holds the value given here
\* (outputIndex -1 stands for undefined: 0 is a set outputIndex)
EmptyQuery ==
    [findAll |-> FALSE, status |-> "", issueId |-> <<>>, prId |-> <<>>,
     creatorIdentityKey |-> <<>>, repoOwnerAddr |-> <<>>, contributorAddr |-> <<>>,
     txid |-> "", outputIndex |-> -1, isExpired |-> FALSE, currentTimestamp |-> 0]

\* a question: its service and its query (<<>> when the question has none)
Question(service, query) == [service |-> service, query |-> query]

\* what the caller of lookup gets: a thrown Error (message), or a returned
\* value: a list of refs, a full record, the empty object {} or an object
\* { error: message }
Answer(outcome, kind, refs, record, message) ==
    [outcome |-> outcome, kind |-> kind, refs |-> refs, record |-> record,
     message |-> message]
ThrewError(message) == Answer("threw", "none", <<>>, <<>>, message)
RefList(refs) == Answer("returned", "list", refs, <<>>, "")
FullRecord(d) == Answer("returned", "record", <<>>, <<d>>, "")
EmptyObject == Answer("returned", "empty", <<>>, <<>>, "")
ErrorObject(message) == Answer("returned", "error", <<>>, <<>>, message)

\* the variant the if chain of the try block takes for query q ("none" when
\* it reaches the throw at its end)
Variant(q) ==
    IF q.findAll THEN "findAll"
    ELSE IF q.status # "" THEN "status"
    ELSE IF q.issueId # <<>> THEN "issueId"
    ELSE IF q.prId # <<>> THEN "prId"
    ELSE IF q.creatorIdentityKey # <<>> THEN "creatorIdentityKey"
    ELSE IF q.repoOwnerAddr # <<>> THEN "repoOwnerAddr"
    ELSE IF q.contributorAddr # <<>> THEN "contributorAddr"
    ELSE IF q.txid # "" /\ q.outputIndex # -1 THEN "ref"
    ELSE IF q.isExpired /\ q.currentTimestamp # 0 THEN "expired"
    ELSE "none"

\* the try block of lookup when neither the Store nor the chain throws
Dispatch(recs, q) ==
    LET v == Variant(q) IN
    IF v = "findAll" THEN RefList(findAllActive(recs))
    ELSE IF v = "status" THEN RefList(findByStatus(recs, q.status))
    ELSE IF v = "issueId" THEN RefList(findByIssueId(recs, q.issueId))
    ELSE IF v = "prId" THEN RefList(findByPrId(recs, q.prId))
    ELSE IF v = "creatorIdentityKey" THEN RefList(findByCreator(recs, q.creatorIdentityKey))
    ELSE IF v = "repoOwnerAddr" THEN RefList(findByRepoOwner(recs, q.repoOwnerAddr))
    ELSE IF v = "contributorAddr" THEN RefList(findByContributor(recs, q.contributorAddr))
    ELSE IF v = "ref"
         THEN LET details == getBountyDetails(recs, q.txid, q.outputIndex) IN
              IF details = <<>> THEN EmptyObject ELSE FullRecord(details[1])
    ELSE RefList(findExpiredBounties(recs, q.currentTimestamp))

\* lookup(question): the two guards throw; inside the try block an error of
\* the Store or the throw at the end of the chain is caught, logged and
\* answered with {}
lookup(recs, question, storeFails) ==
    IF question.query = <<>> THEN ThrewError("A valid query must be provided")
    ELSE IF question.service # "ls_bounty" THEN ThrewError("Lookup service not supported")
    ELSE LET q == question.query[1] IN
         IF Variant(q) = "none" THEN EmptyObject
         ELSE IF storeFails THEN EmptyObject
         ELSE Dispatch(recs, q)

\* whether lookup(question) calls the Store
lookupCallsStore(question) ==
    /\ question.query # <<>>
    /\ question.service = "ls_bounty"
    /\ Variant(question.query[1]) # "none"

LookupCall(called, question, storeFailed, answer) ==
    [called |-> called, question |-> question, storeFailed |-> storeFailed,
     answer |-> answer]

NoLookup == LookupCall(FALSE, Question("ls_bounty", <<>>), FALSE, EmptyObject)

Lookup(question, storeFails) ==
    /\ lastLookup' = LookupCall(TRUE, question, storeFails /\ lookupCallsStore(question),
                                lookup(records, question, storeFails))
    /\ UNCHANGED <<records, lastCall, lastAdmission, prevAdmission>>

\* the questions put to lookup
Queries ==
    {EmptyQuery,
     [EmptyQuery EXCEPT !.findAll = TRUE],
     [EmptyQuery EXCEPT !.status = "active"],
     [EmptyQuery EXCEPT !.status = "completed"],
     [EmptyQuery EXCEPT !.issueId = <<4, 9>>],
     [EmptyQuery EXCEPT !.issueId = <<3, 4, 3, 9>>],
     [EmptyQuery EXCEPT !.prId = <<3, 5, 6, 2>>],
     [EmptyQuery EXCEPT !.creatorIdentityKey = K1],
     [EmptyQuery EXCEPT !.creatorIdentityKey = K2],
     [EmptyQuery EXCEPT !.repoOwnerAddr = <<10, 2>>],
     [EmptyQuery EXCEPT !.contributorAddr = <<10, 3>>],
     [EmptyQuery EXCEPT !.txid = "T1", !.outputIndex = 0],
     [EmptyQuery EXCEPT !.txid = "T2", !.outputIndex = 1],
     [EmptyQuery EXCEPT !.txid = "T1"],
     [EmptyQuery EXCEPT !.isExpired = TRUE, !.currentTimestamp = 8],
     [EmptyQuery EXCEPT !.isExpired = TRUE, !.currentTimestamp = 5],
     [EmptyQuery EXCEPT !.isExpired = TRUE, !.currentTimestamp = LOCKTIME_BLOCK_HEIGHT_MARKER],
     [EmptyQuery EXCEPT !.isExpired = TRUE],
     [EmptyQuery EXCEPT !.issueId = <<3, 4, 3, 9>>, !.prId = <<3, 5, 6, 4>>],
     [EmptyQuery EXCEPT !.findAll = TRUE, !.status = "completed"]}

Questions ==
    {Question("ls_bounty", <<>>), Question("ls_meter", <<EmptyQuery>>)}
        \cup {Question("ls_bounty", <<q>>) : q \in Queries}

-----------------------------------------------------------------------------
(* Admission calls *)

Admission(called, beef, previousCoins, result) ==
    [called |-> called, beef |-> beef, previousCoins |-> previousCoins, result |-> result]

NoAdmission == Admission(FALSE, UnparsableBeef, <<>>, Threw)

RECURSIVE SeqsUpTo(_, _)
SeqsUpTo(S, n) ==
    IF n = 0 THEN {<<>>}
    ELSE LET shorter == SeqsUpTo(S, n - 1) IN
         shorter \cup {Append(q, x) : q \in shorter, x \in S}

\* the envelopes handed to admission, and the previousCoins lists
Beefs == {UnparsableBeef} \cup {BeefOf(o) : o \in SeqsUpTo(Scripts, MaxOutputs)}
LedgerBeefs == {UnparsableBeef} \cup {BeefOf(Ledger[t]) : t \in TxIds}
CoinLists == {<<>>, <<1, 0>>}

\* one call of identifyAdmissibleOutputs; remember selects whether the call
\* before it replaces the remembered one
Admit(beef, previousCoins, remember) ==
    /\ lastAdmission' = Admission(TRUE, beef, previousCoins,
                                  identifyAdmissibleOutputs(beef, previousCoins))
    /\ prevAdmission' = IF remember THEN lastAdmission ELSE prevAdmission
    /\ UNCHANGED <<records, lastCall>>

AdmitAny ==
    /\ \E beef \in Beefs, c \in CoinLists, m \in BOOLEAN : Admit(beef, c, m)
    /\ UNCHANGED <<lastLookup, delivered>>
    /\ UNCHANGED <<spend, sessions, lastReply, used>>
AdmitLedger ==
    /\ \E beef \in LedgerBeefs, c \in CoinLists, m \in BOOLEAN : Admit(beef, c, m)
    /\ UNCHANGED <<lastLookup, delivered>>
    /\ UNCHANGED <<spend, sessions, lastReply, used>>

Added ==
    /\ \E r \in Refs, topic \in Topics, f \in BOOLEAN :
          OutputAdded(r[1], r[2], ScriptAt(r[1], r[2]), topic, f)
    /\ UNCHANGED <<lastLookup, delivered>>
    /\ UNCHANGED <<spend, sessions, lastReply, used>>
Spent ==
    /\ \E r \in Refs, topic \in Topics, f \in BOOLEAN : OutputSpent(r[1], r[2], topic, f)
    /\ UNCHANGED <<lastLookup, delivered>>
    /\ UNCHANGED <<spend, sessions, lastReply, used>>
Deleted ==
    /\ \E r \in Refs, topic \in Topics, f \in BOOLEAN : OutputDeleted(r[1], r[2], topic, f)
    /\ UNCHANGED <<lastLookup, delivered>>
    /\ UNCHANGED <<spend, sessions, lastReply, used>>

-----------------------------------------------------------------------------
(* Lookups between the notifications of topic tm_bounty; a notification
   ends the observation of the lookup made before it *)

NotifyAdded ==
    /\ \E r \in Refs, f \in BOOLEAN :
          OutputAdded(r[1], r[2], ScriptAt(r[1], r[2]), "tm_bounty", f)
    /\ lastLookup' = NoLookup
    /\ UNCHANGED delivered
    /\ UNCHANGED <<spend, sessions, lastReply, used>>
NotifySpent ==
    /\ \E r \in Refs, f \in BOOLEAN : OutputSpent(r[1], r[2], "tm_bounty", f)
    /\ lastLookup' = NoLookup
    /\ UNCHANGED delivered
    /\ UNCHANGED <<spend, sessions, lastReply, used>>
NotifyDeleted ==
    /\ \E r \in Refs, f \in BOOLEAN : OutputDeleted(r[1], r[2], "tm_bounty", f)
    /\ lastLookup' = NoLookup
    /\ UNCHANGED delivered
    /\ UNCHANGED <<spend, sessions, lastReply, used>>
Asked ==
    /\ \E question \in Questions, f \in BOOLEAN : Lookup(question, f)
    /\ UNCHANGED delivered
    /\ UNCHANGED <<spend, sessions, lastReply, used>>

-----------------------------------------------------------------------------
(* Delivery schedules: the notifications of topic tm_bounty with a working
   Store, delivered in any order and any number of times, and the
   by-creator-identity lookups between them *)

\* what the deliveries for one ref amount to: "never" none yet, "added" an
\* outputAdded and no outputSpent or outputDeleted since the first one,
\* "removed" an outputSpent or outputDeleted after the first outputAdded,
\* "spentFirst" an outputSpent or outputDeleted before any outputAdded
AfterAdded(d) == IF d = "never" THEN "added" ELSE d
AfterRemoved(d) ==
    IF d = "never" THEN "spentFirst" ELSE IF d = "added" THEN "removed" ELSE d

DeliverAdded ==
    /\ \E r \in Refs :
          /\ OutputAdded(r[1], r[2], ScriptAt(r[1], r[2]), "tm_bounty", FALSE)
          /\ delivered' = [delivered EXCEPT ![r] = AfterAdded(@)]
    /\ lastLookup' = NoLookup
    /\ UNCHANGED <<spend, sessions, lastReply, used>>
DeliverSpent ==
    /\ \E r \in Refs :
          /\ OutputSpent(r[1], r[2], "tm_bounty", FALSE)
          /\ delivered' = [delivered EXCEPT ![r] = AfterRemoved(@)]
    /\ lastLookup' = NoLookup
    /\ UNCHANGED <<spend, sessions, lastReply, used>>
DeliverDeleted ==
    /\ \E r \in Refs :
          /\ OutputDeleted(r[1], r[2], "tm_bounty", FALSE)
          /\ delivered' = [delivered EXCEPT ![r] = AfterRemoved(@)]
    /\ lastLookup' = NoLookup
    /\ UNCHANGED <<spend, sessions, lastReply, used>>
AskedCreator ==
    /\ \E k \in IdentityKeys :
          Lookup(Question("ls_bounty", <<[EmptyQuery EXCEPT !.creatorIdentityKey = k]>>), FALSE)
    /\ UNCHANGED delivered
    /\ UNCHANGED <<spend, sessions, lastReply, used>>

-----------------------------------------------------------------------------
(* Spends of a contract UTXO: each behaviour calls one public method of one
   contract instance on one spending transaction *)

Spend(method, this, tx, sig, pubKey, approverSigs, contributorShares, result) ==
    [method |-> method, this |-> this, tx |-> tx, sig |-> sig, pubKey |-> pubKey,
     approverSigs |-> approverSigs, contributorShares |-> contributorShares,
     result |-> result]

NoTx == SpendingTx(0, 0, UINT_MAX, 0, <<>>)
NoSpend ==
    Spend("none", BountyContract(<<>>, <<>>, <<>>, <<>>, <<>>, <<>>, 0), NoTx, <<>>, <<>>,
          <<>>, <<>>, "none")

\* the contract instances: creator K1, repository owner K2, contributor K3;
\* the approver is the repository owner or the contributor; the deadline is
\* a block height or a timestamp
Deadlines == {5, LOCKTIME_BLOCK_HEIGHT_MARKER + 5}
Escrows ==
    {BountyContract(pubKey2Addr(K1), pubKey2Addr(K2), pubKey2Addr(K3), <<4, 9>>, <<5, 11>>,
                    [i \in 1..N_APPROVERS |-> a], d) : a \in {K2, K3}, d \in Deadlines}

\* the values locked in the UTXO
Values == {1000, 7}

\* the signers and the keys a spender supplies
SpenderKeys == {K1, K2}
SpenderSigs == {TxSig(k) : k \in {K1, K2, K3}}
ApproverSigs == [1..N_APPROVERS -> SpenderSigs]

\* the output lists of the spending transactions of value v: nothing, one
\* output (the value or less, to the creator, the contributor or a stranger,
\* or the value to a script that is no pay-to-address script), or such an
\* output before or after an output to the stranger
SingleOutputs(v) ==
    {Output(w, "p2pkh", pubKey2Addr(k)) : w \in {v, v - 1}, k \in {K1, K3, K4}}
        \cup {Output(v, "other", pubKey2Addr(K3))}
OutputLists(v) ==
    {<<>>} \cup {<<o>> : o \in SingleOutputs(v)}
           \cup {<<o, Output(1, "p2pkh", pubKey2Addr(K4))>> : o \in SingleOutputs(v)}
           \cup {<<Output(1, "p2pkh", pubKey2Addr(K4)), o>> : o \in SingleOutputs(v)}

Sequences == {<<0, 0>>, <<65535, 65534>>, UINT_MAX}
Locktimes ==
    {0, 5, LOCKTIME_BLOCK_HEIGHT_MARKER - 1, LOCKTIME_BLOCK_HEIGHT_MARKER,
     LOCKTIME_BLOCK_HEIGHT_MARKER + 5}

\* the five share pairs: the addresses are fixed, the percentages vary (a
\* percentage is a bigint: it may be above 100, and below 0 after the first pair)
ShareAddrs == <<<<10, 3>>, <<10, 4>>, <<10, 5>>, <<10, 6>>, <<10, 7>>>>
Percents == {0, 1, 39, 40, 60, 100}
FewPercents == {0, 1}
ShareLists ==
    {<< <<ShareAddrs[1], p1>>, <<ShareAddrs[2], p2>>, <<ShareAddrs[3], p3>>,
        <<ShareAddrs[4], p4>>, <<ShareAddrs[5], p5>> >> :
        p1 \in Percents \cup {150}, p2 \in Percents \cup {-50}, p3 \in FewPercents,
        p4 \in {0}, p5 \in FewPercents}

\* the outputs paying the pairs with index in I their floor share, in pair order
RECURSIVE PayPairs(_, _, _, _)
PayPairs(shares, v, I, i) ==
    IF i > Len(shares) THEN <<>>
    ELSE (IF i \in I
          THEN <<Output((v * shares[i][2]) \div 100, "p2pkh", shares[i][1])>>
          ELSE <<>>) \o PayPairs(shares, v, I, i + 1)

NonZeroPairs(shares) == {i \in 1..Len(shares) : shares[i][2] # 0}

\* the output lists of the transactions that spend value v by a split
SplitOutputLists(shares, v) ==
    {<<>>, <<Output(v, "p2pkh", pubKey2Addr(K4))>>,
     PayPairs(shares, v, NonZeroPairs(shares), 1),
     PayPairs(shares, v, NonZeroPairs(shares) \cup {1}, 1),
     PayPairs(shares, v, {i \in 1..Len(shares) : shares[i][2] > 0}, 1),
     PayPairs(shares, v, {i \in 1..Len(shares) : shares[i][2] > 0} \cup {1}, 1),
     PayPairs(shares, v, 1..Len(shares), 1)}

\* the spends not yet verified
ConfirmSpend ==
    \E this \in Escrows, v \in Values, w \in Values, n \in {0, 1}, sig \in SpenderSigs,
       pk \in SpenderKeys, as \in ApproverSigs :
        \E outs \in OutputLists(w) :
            spend = Spend("confirmBountyPayment", this, SpendingTx(v, n, UINT_MAX, 0, outs),
                          sig, pk, as, <<>>, "pending")
RejectSpend ==
    \E this \in Escrows, v \in Values, w \in Values, sig \in SpenderSigs,
       pk \in SpenderKeys, as \in ApproverSigs :
        \E outs \in OutputLists(w) :
            spend = Spend("rejectBounty", this, SpendingTx(v, 0, UINT_MAX, 0, outs),
                          sig, pk, as, <<>>, "pending")
RefundSpend ==
    \E this \in Escrows, v \in Values, sequence \in Sequences, locktime \in Locktimes,
       outs \in OutputLists(1000), sig \in SpenderSigs, pk \in SpenderKeys :
        spend = Spend("refundDeadline", this, SpendingTx(v, 0, sequence, locktime, outs),
                      sig, pk, <<>>, <<>>, "pending")
SplitSpend ==
    \E this \in {e \in Escrows : e.deadline = 5}, v \in Values, shares \in ShareLists,
       sig \in SpenderSigs, pk \in SpenderKeys, as \in ApproverSigs :
        \E outs \in SplitOutputLists(shares, v) :
            spend = Spend("splitBountyPayment", this, SpendingTx(v, 0, UINT_MAX, 0, outs),
                          sig, pk, as, shares, "pending")

ConfirmBountyPayment ==
    /\ spend.method = "confirmBountyPayment" /\ spend.result = "pending"
    /\ spend' = [spend EXCEPT !.result =
                    confirmBountyPayment(spend.this, spend.tx, spend.sig, spend.pubKey,
                                         spend.approverSigs)]
    /\ UNCHANGED <<records, lastCall, lastAdmission, prevAdmission, lastLookup, delivered>>
    /\ UNCHANGED <<sessions, lastReply, used>>
RejectBounty ==
    /\ spend.method = "rejectBounty" /\ spend.result = "pending"
    /\ spend' = [spend EXCEPT !.result =
                    rejectBounty(spend.this, spend.tx, spend.sig, spend.pubKey,
                                 spend.approverSigs)]
    /\ UNCHANGED <<records, lastCall, lastAdmission, prevAdmission, lastLookup, delivered>>
    /\ UNCHANGED <<sessions, lastReply, used>>
RefundDeadline ==
    /\ spend.method = "refundDeadline" /\ spend.result = "pending"
    /\ spend' = [spend EXCEPT !.result =
                    refundDeadline(spend.this, spend.tx, spend.sig, spend.pubKey)]
    /\ UNCHANGED <<records, lastCall, lastAdmission, prevAdmission, lastLookup, delivered>>
    /\ UNCHANGED <<sessions, lastReply, used>>
SplitBountyPayment ==
    /\ spend.method = "splitBountyPayment" /\ spend.result = "pending"
    /\ spend' = [spend EXCEPT !.result =
                    splitBountyPayment(spend.this, spend.tx, spend.sig, spend.pubKey,
                                       spend.approverSigs, spend.contributorShares)]
    /\ UNCHANGED <<records, lastCall, lastAdmission, prevAdmission, lastLookup, delivered>>
    /\ UNCHANGED <<sessions, lastReply, used>>

-----------------------------------------------------------------------------
(* cert-server: the routes /github/auth, /githubCallback and /signCertificate *)

\* a session property or query parameter that is not set (undefined)
Absent == "undefined"

\* the data of a session: oauthState and verifiedGithubUsername
Session(oauthState, verifiedGithubUsername) ==
    [oauthState |-> oauthState, verifiedGithubUsername |-> verifiedGithubUsername]
NewSession == Session(Absent, Absent)

SessionIds == {"sid1", "sid2"}

\* the values Math.random().toString(36) gives, the GitHub logins
OauthStates == {"s1", "s2"}
GithubUsers == {"alice", "bob"}

\* what GitHub answers to the token exchange and the user request: the
\* exchange fails, gives no access_token, the user request fails, gives no
\* login, or gives the login of the account that authorized the code
GithubAnswers == {"tokenThrows", "noToken", "userThrows", "noLogin"} \cup GithubUsers

\* a response: its status, the session data it leaves, and what it carries
\* (the username of githubCallback, the certificate of signCertificate)
Response(status, session, username, certificate) ==
    [status |-> status, session |-> session, username |-> username,
     certificate |-> certificate]

\* initiateGithubAuth: stores the state and redirects
initiateGithubAuth(session, state) ==
    Response(302, [session EXCEPT !.oauthState = state], Absent, <<>>)

\* githubCallback: state is the query parameter (Absent when the request has none)
githubCallback(session, state, github) ==
    IF state # session.oauthState THEN Response(403, session, Absent, <<>>)
    ELSE LET cleaned == [session EXCEPT !.oauthState = Absent] IN
         IF github = "tokenThrows" THEN Response(500, cleaned, Absent, <<>>)
         ELSE IF github = "noToken" THEN Response(400, cleaned, Absent, <<>>)
         ELSE IF github = "userThrows" THEN Response(500, cleaned, Absent, <<>>)
         ELSE IF github = "noLogin" THEN Response(400, cleaned, Absent, <<>>)
         ELSE Response(200, [cleaned EXCEPT !.verifiedGithubUsername = github], github, <<>>)

\* the decrypted fields of a certificate signing request
Fields(githubUsername, verified) == [githubUsername |-> githubUsername, verified |-> verified]

\* signCertificate without the comparison of the username with the session's
signCertificateAnyUsername(session, argsOk, nonce, decrypted, signFails) ==
    IF ~argsOk THEN Response(400, session, Absent, <<>>)
    ELSE IF nonce = "throws" THEN Response(500, session, Absent, <<>>)
    ELSE IF decrypted = <<>> THEN Response(500, session, Absent, <<>>)
    ELSE LET decryptedFields == decrypted[1] IN
         IF session.verifiedGithubUsername = Absent
         THEN Response(401, session, Absent, <<>>)
         ELSE IF decryptedFields.verified = Absent \/ decryptedFields.verified # "true"
         THEN Response(400, session, Absent, <<>>)
         ELSE IF signFails THEN Response(500, session, Absent, <<>>)
         ELSE Response(200, session, Absent, <<decryptedFields>>)

\* signCertificate: argsOk is whether certifierSignCheckArgs returns, nonce
\* how verifyNonce ends ("valid", "invalid", "throws"; its value is not
\* looked at), decrypted the fields decryptFields gives (<<>> when it
\* throws), signFails whether sign throws; the certificate of a 200 response
\* carries the decrypted fields
signCertificate(session, argsOk, nonce, decrypted, signFails) ==
    IF ~argsOk THEN Response(400, session, Absent, <<>>)
    ELSE IF nonce = "throws" THEN Response(500, session, Absent, <<>>)
    ELSE IF decrypted = <<>> THEN Response(500, session, Absent, <<>>)
    ELSE LET decryptedFields == decrypted[1] IN
         IF session.verifiedGithubUsername = Absent
         THEN Response(401, session, Absent, <<>>)
         ELSE IF decryptedFields.githubUsername # session.verifiedGithubUsername
         THEN Response(400, session, Absent, <<>>)
         ELSE IF decryptedFields.verified = Absent \/ decryptedFields.verified # "true"
         THEN Response(400, session, Absent, <<>>)
         ELSE IF signFails THEN Response(500, session, Absent, <<>>)
         ELSE Response(200, session, Absent, <<decryptedFields>>)

\* a request of a route in a session and the response to it; state is the
\* state of the request (generated by /github/auth, received by
\* /githubCallback), fields the decrypted fields of /signCertificate
Reply(route, id, state, fields, response) ==
    [route |-> route, id |-> id, state |-> state, fields |-> fields,
     status |-> response.status, username |-> response.username,
     certificate |-> response.certificate]
NoReply == Reply("none", "sid1", Absent, <<>>, Response(0, NewSession, Absent, <<>>))

InitiateGithubAuth(id, state) ==
    LET response == initiateGithubAuth(sessions[id], state) IN
    /\ sessions' = [sessions EXCEPT ![id] = response.session]
    /\ lastReply' = Reply("initiateGithubAuth", id, state, <<>>, response)
    /\ used' = [used EXCEPT ![id] = {}]
    /\ UNCHANGED <<records, lastCall, lastAdmission, prevAdmission, lastLookup, delivered, spend>>

GithubCallback(id, state, github) ==
    LET response == githubCallback(sessions[id], state, github) IN
    /\ sessions' = [sessions EXCEPT ![id] = response.session]
    /\ lastReply' = Reply("githubCallback", id, state, <<>>, response)
    /\ used' = [used EXCEPT ![id] = IF response.status = 403 THEN @ ELSE @ \cup {state}]
    /\ UNCHANGED <<records, lastCall, lastAdmission, prevAdmission, lastLookup, delivered, spend>>

SignCertificate(id, argsOk, nonce, decrypted, signFails) ==
    LET response == signCertificate(sessions[id], argsOk, nonce, decrypted, signFails) IN
    /\ sessions' = [sessions EXCEPT ![id] = response.session]
    /\ lastReply' = Reply("signCertificate", id, Absent, decrypted, response)
    /\ UNCHANGED used
    /\ UNCHANGED <<records, lastCall, lastAdmission, prevAdmission, lastLookup, delivered, spend>>

\* the requests of the model
DecryptedFields ==
    {<<>>} \cup {<<Fields(u, v)>> : u \in GithubUsers \cup {Absent}, v \in {"true", "false", Absent}}

Initiates == \E id \in SessionIds, state \in OauthStates : InitiateGithubAuth(id, state)
Callbacks ==
    \E id \in SessionIds, state \in OauthStates \cup {Absent}, github \in GithubAnswers :
        GithubCallback(id, state, github)
Signs ==
    \E id \in SessionIds, argsOk \in BOOLEAN, nonce \in {"valid", "invalid", "throws"},
       decrypted \in DecryptedFields, signFails \in BOOLEAN :
        SignCertificate(id, argsOk, nonce, decrypted, signFails)

-----------------------------------------------------------------------------
(* Specifications *)

Init ==
    /\ records = <<>>
    /\ lastCall = NoCall
    /\ lastAdmission = NoAdmission
    /\ prevAdmission = NoAdmission
    /\ lastLookup = NoLookup
    /\ delivered = [r \in Refs |-> "never"]
    /\ spend = NoSpend
    /\ sessions = [id \in SessionIds |-> NewSession]
    /\ lastReply = NoReply
    /\ used = [id \in SessionIds |-> {}]

\* admission of ledger transactions and lifecycle notifications of any topic
Next == AdmitLedger \/ Added \/ Spent \/ Deleted
Spec == Init /\ [][Next]_vars

\* admission alone, over every envelope of the bounds
NextAdmission == AdmitAny
SpecAdmission == Init /\ [][NextAdmission]_vars

\* the lifecycle notifications alone
NextProjection == Added \/ Spent \/ Deleted
SpecProjection == Init /\ [][NextProjection]_vars

\* lookups between notifications
NextLookup == NotifyAdded \/ NotifySpent \/ NotifyDeleted \/ Asked
SpecLookup == Init /\ [][NextLookup]_vars

\* the spends of a contract UTXO, one per behaviour
InitContract ==
    /\ records = <<>>
    /\ lastCall = NoCall
    /\ lastAdmission = NoAdmission
    /\ prevAdmission = NoAdmission
    /\ lastLookup = NoLookup
    /\ delivered = [r \in Refs |-> "never"]
    /\ ConfirmSpend \/ RejectSpend \/ RefundSpend \/ SplitSpend
    /\ sessions = [id \in SessionIds |-> NewSession]
    /\ lastReply = NoReply
    /\ used = [id \in SessionIds |-> {}]
NextContract == ConfirmBountyPayment \/ RejectBounty \/ RefundDeadline \/ SplitBountyPayment
SpecContract == InitContract /\ [][NextContract]_vars

\* the cert-server's routes, requested in any order in any session
NextCert == Initiates \/ Callbacks \/ Signs
SpecCert == Init /\ [][NextCert]_vars

\* the delivery schedules of the notifications
NextDelivery == DeliverAdded \/ DeliverSpent \/ DeliverDeleted \/ AskedCreator
SpecDelivery == Init /\ [][NextDelivery]_vars

-----------------------------------------------------------------------------
(* Admission: claims C1 to C5 *)

\* the elements of a sequence
Range(q) == {q[k] : k \in 1..Len(q)}

\* the indices a returned call admitted
AdmittedBy(a) == Range(a.result.value[1].outputsToAdmit)

\* the script has the bounty layout and the creator signature it carries
\* verifies against the creator identity key it carries
WellSigned(script) ==
    /\ script.layout = "bounty"
    /\ VerifySignature(script.args.creatorIdentityKey,
                       ToArrayHex(script.args.creatorSignature)) = "valid"

\* C1: a call on a parseable transaction admits index i if and only if output
\* i decodes as a bounty contract whose embedded creator signature verifies
\* against its creator identity key
C1_AdmitsExactlyTheWellSigned ==
    (lastAdmission.called /\ lastAdmission.beef.parseable) =>
        /\ lastAdmission.result.outcome = "returned"
        /\ \A i \in 0..(Len(lastAdmission.beef.outputs) - 1) :
              (i \in AdmittedBy(lastAdmission)) <=> WellSigned(lastAdmission.beef.outputs[i + 1])

\* the two output lists have the same length and differ at position k only
DifferOnlyAt(o1, o2, k) ==
    /\ Len(o1) = Len(o2)
    /\ k \in 1..Len(o1)
    /\ o1[k] # o2[k]
    /\ \A j \in 1..Len(o1) : j # k => o1[j] = o2[j]

\* C2: of two calls on parseable transactions that differ in one output k
\* only, neither is aborted, and every other output j has the same verdict
\* (admitted or not) in both
C2_PerOutputIndependent ==
    (/\ lastAdmission.called /\ prevAdmission.called
     /\ lastAdmission.beef.parseable /\ prevAdmission.beef.parseable) =>
        \A k \in 1..Len(lastAdmission.beef.outputs) :
            DifferOnlyAt(lastAdmission.beef.outputs, prevAdmission.beef.outputs, k) =>
                /\ lastAdmission.result.outcome = "returned"
                /\ prevAdmission.result.outcome = "returned"
                /\ \A j \in 1..Len(lastAdmission.beef.outputs) :
                      j # k => ((j - 1 \in AdmittedBy(lastAdmission))
                                <=> (j - 1 \in AdmittedBy(prevAdmission)))

\* two calls were made on two-output transactions that differ in one output
\* only, which does not decode in the one and decodes in the other
C2_Witness ==
    /\ lastAdmission.called /\ prevAdmission.called
    /\ lastAdmission.beef.parseable /\ prevAdmission.beef.parseable
    /\ Len(lastAdmission.beef.outputs) = 2
    /\ \E k \in 1..2 :
          /\ DifferOnlyAt(lastAdmission.beef.outputs, prevAdmission.beef.outputs, k)
          /\ lastAdmission.beef.outputs[k] = GarbageScript
          /\ prevAdmission.beef.outputs[k].layout = "bounty"
    /\ lastAdmission.result.outcome = "returned"

C4_OnlyTheEnvelopeFailsTheCall ==
    lastAdmission.called =>
        /\ ~lastAdmission.beef.parseable => lastAdmission.result = Threw
        /\ lastAdmission.beef.parseable =>
              /\ lastAdmission.result.outcome = "returned"
              /\ Len(lastAdmission.result.value) = 1

\* a call on an unparsable envelope threw, after a call on a transaction with
\* an output that does not decode and one whose signature fails had returned
C4_Witness ==
    /\ lastAdmission.called /\ prevAdmission.called
    /\ ~lastAdmission.beef.parseable
    /\ lastAdmission.result.outcome = "threw"
    /\ prevAdmission.beef = BeefOf(<<GarbageScript, ScriptForged>>)
    /\ prevAdmission.result.outcome = "returned"

-----------------------------------------------------------------------------
(* Projection: claims C6 to C10 *)

\* the indices identifyAdmissibleOutputs admits of ledger transaction txid
AdmittedOf(txid) ==
    Range(identifyAdmissibleOutputs(BeefOf(Ledger[txid]), <<>>).value[1].outputsToAdmit)

\* C6: every record of the store belongs to an output that admission admits
C6_RecordsOnlyForAdmittedOutputs ==
    \A k \in 1..Len(records) : records[k].outputIndex \in AdmittedOf(records[k].txid)

\* the last notification was an outputAdded for topic tm_bounty of an output
\* whose script decodes, and the Store did not fail
AddedDecodable ==
    /\ lastCall.op = "outputAdded"
    /\ lastCall.topic = "tm_bounty"
    /\ ~lastCall.storeFailed
    /\ ScriptAt(lastCall.txid, lastCall.outputIndex).layout = "bounty"

\* C7: after outputAdded of a decodable script for tm_bounty, a by-ref query
\* finds a record of that ref with status 'active' and with the contract's
\* creatorAddr, repoOwnerAddr, contributorAddr, issueId, prId, deadline and
\* creatorIdentityKey
C7_AddedRecordCarriesTheContract ==
    AddedDecodable =>
        LET p == ScriptAt(lastCall.txid, lastCall.outputIndex).args
            details == getBountyDetails(records, lastCall.txid, lastCall.outputIndex)
        IN  /\ details # <<>>
            /\ details[1].status = "active"
            /\ details[1].creatorAddr = p.creatorAddr
            /\ details[1].repoOwnerAddr = p.repoOwnerAddr
            /\ details[1].contributorAddr = p.contributorAddr
            /\ details[1].issueId = p.issueId
            /\ details[1].prId = p.prId
            /\ details[1].deadline = p.deadline
            /\ details[1].creatorIdentityKey = p.creatorIdentityKey

\* C8: the store holds at most one record per (txid, outputIndex)
C8_AtMostOneRecordPerRef ==
    \A r \in Refs : Cardinality(Matching(records, r[1], r[2])) <= 1

\* C9: after an outputSpent or outputDeleted for tm_bounty that the Store did
\* not fail, the store holds no record of that ref
C9_NoRecordAfterSpentOrDeleted ==
    (/\ lastCall.op \in {"outputSpent", "outputDeleted"}
     /\ lastCall.topic = "tm_bounty"
     /\ ~lastCall.storeFailed) =>
        Matching(records, lastCall.txid, lastCall.outputIndex) = {}

\* C10: outputSpent or outputDeleted of a ref without a record returns and
\* leaves the store as it is, and an outputSpent that follows an outputSpent
\* of the same ref leaves the store as it is
C10_DeleteTwiceIsDeleteOnce ==
    [][\A r \in Refs :
          /\ (/\ Matching(records, r[1], r[2]) = {}
              /\ (\/ OutputSpent(r[1], r[2], "tm_bounty", FALSE)
                  \/ OutputDeleted(r[1], r[2], "tm_bounty", FALSE)))
             => (records' = records /\ lastCall'.outcome = "returned")
          /\ (/\ lastCall = Call("outputSpent", r[1], r[2], "tm_bounty", TRUE, FALSE, "returned")
              /\ OutputSpent(r[1], r[2], "tm_bounty", FALSE))
             => records' = records]_vars

-----------------------------------------------------------------------------
(* Delivery and lifecycle callbacks: claims C11 to C14 *)

\* the refs of the ledger whose script decodes as a bounty contract
DecodableRefs == {r \in Refs : ~fromLockingScript(ScriptAt(r[1], r[2])).threw}

\* C11: in a delivery schedule where no ref had an outputSpent or
\* outputDeleted before its first outputAdded, the store holds a record of a
\* decodable ref exactly when that ref was added and not spent or deleted
\* since, and holds no record of any other ref
C11_DeliveriesConverge ==
    (\A r \in Refs : delivered[r] # "spentFirst") =>
        \A r \in Refs :
            (Matching(records, r[1], r[2]) # {})
                <=> (r \in DecodableRefs /\ delivered[r] = "added")

\* C12: once an outputSpent or outputDeleted has removed the record of a ref,
\* no later step makes a record of that ref exist again
C12_NoRecordAgainAfterRemoval ==
    [][\A r \in Refs :
          (delivered[r] = "removed" /\ Matching(records, r[1], r[2]) = {})
              => Matching(records', r[1], r[2]) = {}]_vars

\* C13: a notification (outputAdded, outputSpent or outputDeleted) of a topic
\* other than tm_bounty returns, does not reach the Store and leaves the
\* store as it is
C13_OtherTopicsAreIgnored ==
    [][lastCall'.topic # "tm_bounty" =>
          /\ records' = records
          /\ lastCall'.outcome = "returned"
          /\ ~lastCall'.storeCalled]_vars

\* an outputSpent of topic tm_meter returned for a ref whose record is in the
\* store
C13_Witness ==
    /\ lastCall.op = "outputSpent"
    /\ lastCall.topic = "tm_meter"
    /\ lastCall.outcome = "returned"
    /\ Matching(records, lastCall.txid, lastCall.outputIndex) # {}

\* C14: an outputAdded for tm_bounty with a script that does not decode as a
\* bounty contract returns to its caller and leaves the store as it is
C14_UndecodableIsDropped ==
    [][(/\ lastCall'.op = "outputAdded"
        /\ lastCall'.topic = "tm_bounty"
        /\ fromLockingScript(ScriptAt(lastCall'.txid, lastCall'.outputIndex)).threw)
       => (records' = records /\ lastCall'.outcome = "returned")]_vars

\* an outputAdded for tm_bounty of an output whose script does not decode
\* returned, with a working Store that holds the record of another output
C14_Witness ==
    /\ lastCall.op = "outputAdded"
    /\ lastCall.topic = "tm_bounty"
    /\ fromLockingScript(ScriptAt(lastCall.txid, lastCall.outputIndex)).threw
    /\ ~lastCall.storeFailed
    /\ lastCall.outcome = "returned"
    /\ Len(records) > 0
    /\ Matching(records, lastCall.txid, lastCall.outputIndex) = {}

-----------------------------------------------------------------------------
(* Lookup and failures: claims C15 to C20 *)

\* the refs of a list answer
RefsOf(answer) == {<<answer.refs[k].txid, answer.refs[k].outputIndex>> : k \in 1..Len(answer.refs)}

\* the lookup made in this state asked for the outputs of one creator
AskedForCreator ==
    /\ lastLookup.called
    /\ lastLookup.question.service = "ls_bounty"
    /\ lastLookup.question.query # <<>>
    /\ Variant(lastLookup.question.query[1]) = "creatorIdentityKey"
    /\ ~lastLookup.storeFailed

\* C15: a by-creator-identity query for key K is answered with the list of
\* exactly the refs whose outputAdded, for a contract whose creatorIdentityKey
\* is K, was processed and whose outputSpent or outputDeleted was not
C15_CreatorQueryFollowsTheEvents ==
    AskedForCreator =>
        /\ lastLookup.answer.outcome = "returned"
        /\ lastLookup.answer.kind = "list"
        /\ \A r \in Refs :
              delivered[r] # "spentFirst" =>
                  ((r \in RefsOf(lastLookup.answer))
                   <=> (/\ r \in DecodableRefs
                        /\ delivered[r] = "added"
                        /\ ScriptAt(r[1], r[2]).args.creatorIdentityKey
                               = lastLookup.question.query[1].creatorIdentityKey))

\* the answer is an error outcome: a thrown error or an object { error }
IsErrorOutcome(answer) == answer.outcome = "threw" \/ answer.kind = "error"

\* the question has no query, or its query matches none of the variants
InvalidQuestion(question) ==
    \/ question.query = <<>>
    \/ Variant(question.query[1]) = "none"

\* C16: a lookup with no query, or with a query that matches none of the
\* variants, ends in an error outcome and not in a normal answer
C16_InvalidQueryIsAnError ==
    (lastLookup.called /\ InvalidQuestion(lastLookup.question)) =>
        IsErrorOutcome(lastLookup.answer)

\* the lookup made in this state was a by-ref query the Store answered
AskedForRef ==
    /\ lastLookup.called
    /\ lastLookup.question.service = "ls_bounty"
    /\ lastLookup.question.query # <<>>
    /\ Variant(lastLookup.question.query[1]) = "ref"
    /\ ~lastLookup.storeFailed

\* C17: a by-ref query that matches a record is answered with the full
\* record; one that matches none is answered with a result that differs from
\* the result of an invalid query and from the result of the same query when
\* the Store fails
C17_NotFoundIsNotAQueryError ==
    AskedForRef =>
        LET q == lastLookup.question.query[1]
            details == getBountyDetails(records, q.txid, q.outputIndex)
        IN  IF details # <<>>
            THEN lastLookup.answer = FullRecord(details[1])
            ELSE /\ lastLookup.answer.outcome = "returned"
                 /\ lastLookup.answer # lookup(records, Question("ls_bounty", <<EmptyQuery>>), FALSE)
                 /\ lastLookup.answer # lookup(records, lastLookup.question, TRUE)

\* C18: every lookup returns; a lookup with no query, with another service
\* name, with a query that matches no variant, or whose Store call fails
\* returns an object { error }
C18_LookupNeverThrows ==
    lastLookup.called =>
        /\ lastLookup.answer.outcome = "returned"
        /\ (\/ InvalidQuestion(lastLookup.question)
            \/ lastLookup.question.service # "ls_bounty"
            \/ lastLookup.storeFailed) => lastLookup.answer.kind = "error"

\* C19: no outputAdded, outputSpent or outputDeleted call ends with an
\* exception at its caller
C19_CallbacksNeverThrow == lastCall.outcome = "returned"

\* C20: a notification or lookup whose Store call failed is seen by its
\* caller as a failure: the notification does not return as a successful one
\* does, and the lookup ends in an error outcome
C20_StoreFailureReachesTheCaller ==
    /\ lastCall.storeFailed => lastCall.outcome # "returned"
    /\ (lastLookup.called /\ lastLookup.storeFailed) => IsErrorOutcome(lastLookup.answer)

-----------------------------------------------------------------------------
(* The contract's transitions: claims C21 to C27 *)

\* the spend called method and the method accepted it
Succeeded(method) == spend.method = method /\ spend.result = "ok"

\* the spend called method and the method accepted or rejected it
Verified(method) == spend.method = method /\ spend.result \notin {"pending", "none"}

\* the one pay-to-address output of the full locked value to addr
FullValueTo(addr) == <<Output(spend.tx.value, "p2pkh", addr)>>

\* C21: confirmBountyPayment accepts a spend only if the outputs its
\* signature hash commits to are exactly one pay-to-address output of the
\* full locked value to contributorAddr
C21_ConfirmPaysTheContributorInFull ==
    Succeeded("confirmBountyPayment") =>
        /\ spend.tx.inputIndex < Len(spend.tx.outputs)
        /\ spend.tx.outputs[spend.tx.inputIndex + 1].kind = "p2pkh"
        /\ spend.tx.outputs[spend.tx.inputIndex + 1].addr = spend.this.contributorAddr
        /\ spend.tx.outputs[spend.tx.inputIndex + 1].satoshis = spend.tx.value
        /\ CommittedOutputs(spend.tx, "ANYONECANPAY_SINGLE")
              = FullValueTo(spend.this.contributorAddr)

\* confirmBountyPayment accepted the spend at input 1 of a transaction whose
\* first output belongs to another input
C21_Witness ==
    /\ Succeeded("confirmBountyPayment")
    /\ spend.tx.inputIndex = 1
    /\ Len(spend.tx.outputs) = 2

\* C22: rejectBounty and refundDeadline accept a spend only if the outputs of
\* the transaction are exactly one pay-to-address output of the full locked
\* value to creatorAddr
C22_RejectAndRefundPayTheCreatorInFull ==
    (Succeeded("rejectBounty") \/ Succeeded("refundDeadline")) =>
        spend.tx.outputs = FullValueTo(spend.this.creatorAddr)

\* rejectBounty accepted a spend of the smaller value, approved by an
\* approver who is not the repository owner
C22_Witness ==
    /\ Succeeded("rejectBounty")
    /\ spend.tx.value = 7
    /\ spend.this.approvers[1] = K3

\* refundDeadline was called with the creator's key, the creator's signature
\* and the refund output
RefundOtherwiseValid ==
    /\ Verified("refundDeadline")
    /\ pubKey2Addr(spend.pubKey) = spend.this.creatorAddr
    /\ spend.sig = TxSig(spend.pubKey)
    /\ spend.tx.outputs = FullValueTo(spend.this.creatorAddr)

\* C23 as stated: given a valid creator signature and a matching refund
\* output, refundDeadline succeeds if and only if locktime >= deadline and
\* sequence < 0xffffffff
C23_RefundIffDeadlineReached ==
    RefundOtherwiseValid =>
        ((spend.result = "ok")
            <=> (/\ spend.tx.locktime >= spend.this.deadline
                 /\ spend.tx.sequence # UINT_MAX))

\* C23 amended: given a valid creator signature and a matching refund
\* output, refundDeadline succeeds if and only if locktime >= deadline,
\* sequence < 0xffffffff and a deadline below LOCKTIME_BLOCK_HEIGHT_MARKER
\* comes with a locktime below it; it fails for every locktime < deadline
C23_RefundIffDeadlineReachedInItsUnit ==
    RefundOtherwiseValid =>
        /\ (spend.result = "ok")
            <=> (/\ spend.tx.locktime >= spend.this.deadline
                 /\ spend.tx.sequence # UINT_MAX
                 /\ (spend.this.deadline < LOCKTIME_BLOCK_HEIGHT_MARKER
                        => spend.tx.locktime < LOCKTIME_BLOCK_HEIGHT_MARKER))
        /\ spend.tx.locktime < spend.this.deadline => spend.result # "ok"

\* refundDeadline rejected an otherwise valid refund whose locktime is a
\* timestamp above a block-height deadline
C23_Witness ==
    /\ RefundOtherwiseValid
    /\ spend.this.deadline = 5
    /\ spend.tx.locktime = LOCKTIME_BLOCK_HEIGHT_MARKER
    /\ spend.tx.sequence = <<0, 0>>
    /\ spend.result # "ok"

\* C24: when refundDeadline accepts a spend, locktime and deadline are both
\* below LOCKTIME_BLOCK_HEIGHT_MARKER or both at or above it
C24_RefundInOneUnitSpace ==
    Succeeded("refundDeadline") =>
        ((spend.tx.locktime < LOCKTIME_BLOCK_HEIGHT_MARKER)
            <=> (spend.this.deadline < LOCKTIME_BLOCK_HEIGHT_MARKER))

\* refundDeadline accepted a refund with a timestamp deadline
C24_Witness ==
    /\ Succeeded("refundDeadline")
    /\ spend.this.deadline >= LOCKTIME_BLOCK_HEIGHT_MARKER
    /\ spend.tx.locktime = spend.this.deadline

\* the repository owner's key and signature and every approver's signature
OwnerAuthorized ==
    /\ pubKey2Addr(spend.pubKey) = spend.this.repoOwnerAddr
    /\ spend.sig = TxSig(spend.pubKey)
    /\ Len(spend.approverSigs) = Len(spend.this.approvers)
    /\ \A i \in 1..Len(spend.approverSigs) :
          spend.approverSigs[i] = TxSig(spend.this.approvers[i])

\* the sum of the five percentages
SumOfShares ==
    spend.contributorShares[1][2] + spend.contributorShares[2][2]
        + spend.contributorShares[3][2] + spend.contributorShares[4][2]
        + spend.contributorShares[5][2]

\* C25: given valid repo-owner and approver signatures and the outputs the
\* method builds, splitBountyPayment succeeds if and only if the five
\* percentages sum to exactly 100
C25_SplitIffSharesSumTo100 ==
    (/\ Verified("splitBountyPayment")
     /\ OwnerAuthorized
     /\ spend.tx.outputs = splitOutputs(spend.contributorShares, spend.tx.value)) =>
        ((spend.result = "ok") <=> (SumOfShares = 100))

\* splitBountyPayment rejected an authorized split with matching outputs
\* whose percentages sum to 101
C25_Witness ==
    /\ Verified("splitBountyPayment")
    /\ OwnerAuthorized
    /\ spend.tx.outputs = splitOutputs(spend.contributorShares, spend.tx.value)
    /\ SumOfShares = 101
    /\ spend.result = "shares must add up to 100%"

\* C26: the outputs of a split that splitBountyPayment accepts are exactly
\* one output for each pair with a non-zero percentage, in pair order, each
\* paying floor(value * percentage / 100) to the pair's address, and none for
\* a pair whose percentage is zero
C26_OneOutputPerNonZeroShare ==
    Succeeded("splitBountyPayment") =>
        spend.tx.outputs = PayPairs(spend.contributorShares, spend.tx.value,
                                    NonZeroPairs(spend.contributorShares), 1)

\* the key whose holder made the signature is the key of address addr
SignedByHolderOf(sig, addr) == \E k \in PubKeys : sig = TxSig(k) /\ pubKey2Addr(k) = addr

\* C27: confirmBountyPayment, rejectBounty and splitBountyPayment accept a
\* spend only with the repository owner's key, the owner's signature and all
\* approver signatures; refundDeadline only with the creator's key and the
\* creator's signature; a spend signed by the creator alone is accepted only
\* as a refund at or after the deadline
C27_NoTransitionWithoutAuthorization ==
    spend.result = "ok" =>
        /\ spend.method \in {"confirmBountyPayment", "rejectBounty", "splitBountyPayment"} =>
              /\ pubKey2Addr(spend.pubKey) = spend.this.repoOwnerAddr
              /\ SignedByHolderOf(spend.sig, spend.this.repoOwnerAddr)
              /\ \A i \in 1..N_APPROVERS :
                    spend.approverSigs[i] = TxSig(spend.this.approvers[i])
        /\ spend.method = "refundDeadline" =>
              /\ pubKey2Addr(spend.pubKey) = spend.this.creatorAddr
              /\ SignedByHolderOf(spend.sig, spend.this.creatorAddr)
              /\ ~SignedByHolderOf(spend.sig, spend.this.repoOwnerAddr)
        /\ (/\ SignedByHolderOf(spend.sig, spend.this.creatorAddr)
            /\ \A i \in 1..Len(spend.approverSigs) :
                  SignedByHolderOf(spend.approverSigs[i], spend.this.creatorAddr)) =>
              (spend.method = "refundDeadline" /\ spend.tx.locktime >= spend.this.deadline)

\* splitBountyPayment accepted a split signed by the repository owner and
\* approved by an approver who is not the owner
C27_Witness ==
    /\ Succeeded("splitBountyPayment")
    /\ spend.this.approvers[1] = K3
    /\ spend.sig = TxSig(K2)

-----------------------------------------------------------------------------
(* The record's value and the codec: claims C29 and C30 *)

\* C29: after outputAdded of a decodable script for tm_bounty, every record
\* of that ref carries as value the amount locked in the output
C29_RecordCarriesTheLockedValue ==
    AddedDecodable =>
        /\ Matching(records, lastCall.txid, lastCall.outputIndex) # {}
        /\ \A k \in Matching(records, lastCall.txid, lastCall.outputIndex) :
              records[k].value = SatoshisAt(lastCall.txid, lastCall.outputIndex)

\* the fields of a parameter set
ParamFields ==
    {"creatorAddr", "repoOwnerAddr", "contributorAddr", "issueId", "prId", "approvers",
     "deadline", "creatorIdentityKey", "creatorSignature"}

\* C30: every output of an admission call's transaction that is the locking
\* script encoded from a parameter set p decodes, and each of the nine fields
\* read from the decoded contract is the field of p
C30_DecodeGivesBackTheParameters ==
    (lastAdmission.called /\ lastAdmission.beef.parseable) =>
        \A k \in 1..Len(lastAdmission.beef.outputs) :
            LET script == lastAdmission.beef.outputs[k] IN
            script.layout = "bounty" =>
                /\ ~fromLockingScript(script).threw
                /\ \A f \in ParamFields :
                      Get(fromLockingScript(script).bounty[1], f) = script.args[f]

-----------------------------------------------------------------------------
(* Behaviour of the projection, the queries and the contract: claims C31 to C36 *)

\* the records of ref r, in collection order
RecordsOf(recs, r) == SelectSeq(recs, LAMBDA d : d.txid = r[1] /\ d.outputIndex = r[2])

\* the collection after the notification c, as its three callbacks leave it
AfterCall(c, recs) ==
    IF c.topic # "tm_bounty" THEN recs
    ELSE IF c.op = "outputAdded"
         THEN outputAddedRecords(recs, c.txid, c.outputIndex, ScriptAt(c.txid, c.outputIndex),
                                 c.storeFailed)
    ELSE IF c.op \in {"outputSpent", "outputDeleted"} /\ ~c.storeFailed
         THEN deleteRecord(recs, c.txid, c.outputIndex)
    ELSE recs

VariantsOf(q) ==
    {v \in {"findAll", "status", "issueId", "prId", "creatorIdentityKey", "repoOwnerAddr",
            "contributorAddr", "ref", "expired"} :
        \/ v = "findAll" /\ q.findAll
        \/ v = "status" /\ q.status # ""
        \/ v = "issueId" /\ q.issueId # <<>>
        \/ v = "prId" /\ q.prId # <<>>
        \/ v = "creatorIdentityKey" /\ q.creatorIdentityKey # <<>>
        \/ v = "repoOwnerAddr" /\ q.repoOwnerAddr # <<>>
        \/ v = "contributorAddr" /\ q.contributorAddr # <<>>
        \/ v = "ref" /\ q.txid # "" /\ q.outputIndex # -1
        \/ v = "expired" /\ q.isExpired /\ q.currentTimestamp # 0}

\* C32: a lookup whose query matches more than one variant ends in an error
\* outcome, not in the answer to one of the variants
C32_SeveralVariantsAreRejected ==
    (/\ lastLookup.called
     /\ lastLookup.question.service = "ls_bounty"
     /\ lastLookup.question.query # <<>>
     /\ Cardinality(VariantsOf(lastLookup.question.query[1])) > 1) =>
        IsErrorOutcome(lastLookup.answer)

\* the lookup made in this state had a query of variant v that the Store answered
AskedVariant(v) ==
    /\ lastLookup.called
    /\ lastLookup.question.service = "ls_bounty"
    /\ lastLookup.question.query # <<>>
    /\ Variant(lastLookup.question.query[1]) = v
    /\ ~lastLookup.storeFailed

\* C33: every record has status 'active'; a by-status query for another
\* status is answered with the empty list, and the findAll query with the
\* ref of every record
C33_EveryRecordIsActive ==
    /\ \A k \in 1..Len(records) : records[k].status = "active"
    /\ (AskedVariant("status") /\ lastLookup.question.query[1].status # "active") =>
          lastLookup.answer = RefList(<<>>)
    /\ AskedVariant("findAll") =>
          lastLookup.answer =
              RefList([k \in 1..Len(records) |->
                          [txid |-> records[k].txid, outputIndex |-> records[k].outputIndex]])

\* a by-status query for 'completed' was answered while the store held a
\* record, after an outputSpent
C33_Witness ==
    /\ AskedVariant("status")
    /\ lastLookup.question.query[1].status = "completed"
    /\ Len(records) > 0
    /\ lastCall.op = "outputSpent"
    /\ lastCall.topic = "tm_bounty"

\* refundDeadline accepts, for the contract of record d, a refund signed by
\* the creator whose transaction has locktime c, a sequence below the
\* maximum and the refund output
RefundPassesAt(d, c) ==
    \E k \in PubKeys :
        /\ pubKey2Addr(k) = d.creatorAddr
        /\ refundDeadline(BountyContract(d.creatorAddr, d.repoOwnerAddr, d.contributorAddr,
                                         d.issueId, d.prId, <<k>>, d.deadline),
                          SpendingTx(1000, 0, <<0, 0>>, c,
                                     <<buildPublicKeyHashOutput(d.creatorAddr, 1000)>>),
                          TxSig(k), k) = "ok"

\* C34: the by-expiry query with cursor c returns the ref of an active record
\* exactly when refundDeadline's timelock checks pass for locktime c
C34_ExpiryQueryAgreesWithRefund ==
    AskedVariant("expired") =>
        \A k \in 1..Len(records) :
            records[k].status = "active" =>
                ((<<records[k].txid, records[k].outputIndex>> \in RefsOf(lastLookup.answer))
                    <=> RefundPassesAt(records[k], lastLookup.question.query[1].currentTimestamp))

\* the sum of the amounts of a list of outputs
RECURSIVE SumSatoshis(_)
SumSatoshis(outputs) ==
    IF outputs = <<>> THEN 0 ELSE outputs[1].satoshis + SumSatoshis(Tail(outputs))

\* C35: in a split that splitBountyPayment accepts, every output amount is
\* between 0 and the locked value, and the amounts sum to at most the locked
\* value (to exactly it when every value * percentage is divisible by 100)
C35_SplitPaysAtMostTheLockedValue ==
    Succeeded("splitBountyPayment") =>
        /\ \A i \in 1..Len(spend.tx.outputs) :
              /\ spend.tx.outputs[i].satoshis >= 0
              /\ spend.tx.outputs[i].satoshis <= spend.tx.value
        /\ SumSatoshis(spend.tx.outputs) <= spend.tx.value
        /\ (\A i \in 1..Len(spend.contributorShares) :
               (spend.tx.value * spend.contributorShares[i][2]) % 100 = 0) =>
              SumSatoshis(spend.tx.outputs) = spend.tx.value

\* C36: every identifyAdmissibleOutputs call that returns gives coinsToRetain
\* equal to its previousCoins argument, in content and order
C36_RetainsThePreviousCoins ==
    (lastAdmission.called /\ lastAdmission.result.outcome = "returned") =>
        lastAdmission.result.value[1].coinsToRetain = lastAdmission.previousCoins

\* a call with previousCoins [1, 0] on a transaction with a well-signed
\* output returned
C36_Witness ==
    /\ lastAdmission.called
    /\ lastAdmission.result.outcome = "returned"
    /\ lastAdmission.previousCoins = <<1, 0>>
    /\ \E k \in 1..Len(lastAdmission.beef.outputs) : WellSigned(lastAdmission.beef.outputs[k])

-----------------------------------------------------------------------------
(* Behaviour of the cert-server's sessions: claims C37 to C39 *)

\* the request the last step answered
Answered(route) == lastReply'.route = route

\* C37: signCertificate answers 200 with a signed certificate only if the
\* session holds a verifiedGithubUsername that a githubCallback answered
\* with 200 stored in that session (no other request writes that property),
\* the decrypted githubUsername equals it and the decrypted verified field
\* is 'true'; every other request is answered 400, 401 or 500 and signs nothing.
C37_SignsOnlyForTheVerifiedUsername ==
    [][/\ \A id \in SessionIds :
            sessions'[id].verifiedGithubUsername # sessions[id].verifiedGithubUsername
                => /\ Answered("githubCallback")
                   /\ lastReply'.id = id
                   /\ lastReply'.status = 200
                   /\ sessions'[id].verifiedGithubUsername = lastReply'.username
       /\ Answered("signCertificate") =>
            IF lastReply'.status = 200
            THEN /\ lastReply'.fields # <<>>
                 /\ sessions[lastReply'.id].verifiedGithubUsername # Absent
                 /\ lastReply'.fields[1].githubUsername
                        = sessions[lastReply'.id].verifiedGithubUsername
                 /\ lastReply'.fields[1].verified = "true"
                 /\ lastReply'.certificate = lastReply'.fields
            ELSE /\ lastReply'.status \in {400, 401, 500}
                 /\ lastReply'.certificate = <<>>]_vars

C37_Witness ==
    /\ lastReply.route = "signCertificate"
    /\ lastReply.status = 200
    /\ lastReply.certificate # <<>>
    /\ lastReply.certificate[1].githubUsername = sessions[lastReply.id].verifiedGithubUsername

\* C38: githubCallback stores verifiedGithubUsername only if the session
\* holds an oauthState (stored by an initiateGithubAuth in that session)
\* and the callback's state parameter equals it; a callback in a session
\* with no pending oauthState is answered 403 and leaves the session unchanged.
C38_CallbackNeedsThePendingState ==
    [][Answered("githubCallback") =>
        LET before == sessions[lastReply'.id] IN
        /\ sessions'[lastReply'.id].verifiedGithubUsername = lastReply'.username
           /\ lastReply'.username # Absent
                => /\ before.oauthState # Absent
                   /\ lastReply'.state = before.oauthState
        /\ before.oauthState = Absent
                => /\ lastReply'.status = 403
                   /\ sessions' = sessions]_vars

\* C39: a state value that passed the state validation of a githubCallback
\* in a session is refused with 403 by every later githubCallback of that
\* session, until initiateGithubAuth runs again in that session.
C39_StateIsSingleUse ==
    [][Answered("githubCallback") /\ lastReply'.state \in used[lastReply'.id]
        => lastReply'.status = 403]_vars

====
